---- MODULE Spec2Model ----
(***************************************************************************)
(* The control endpoint of the amused music daemon (control.c) together    *)
(* with the parts of the main process it drives: the live playlist, the    *)
(* play state, the playback modes, the enqueue transaction, the per-client *)
(* output buffers and the command queue of the player worker.              *)
(*                                                                         *)
(* One action is one run of an event handler.  control_dispatch_imsg is    *)
(* modelled with one action per message type: the handler's loop takes the *)
(* messages of a connection one by one, in order, and nothing else runs in *)
(* between, so a turn that dispatches n messages is n consecutive steps of *)
(* the same connection.                                                    *)
(***************************************************************************)
EXTENDS Integers, Sequences, FiniteSets, TLC

\* ---------------------------------------------------------------- bounds
\* fds the process can hand to clients: accept4 fails with EMFILE beyond it
MaxConn == 2
\* longest playlist (live or scratch) the model builds
MaxLen == 2
\* frames a client's output buffer holds before it is written out
MaxOut == 2
\* messages pending on the player socket
MaxPlayerQ == 2

FDs == 1..MaxConn
Paths == {"a", "b"}

\* enum play_state
STATE_STOPPED == 0
STATE_PLAYING == 1
STATE_PAUSED == 2

\* mode requests of struct player_mode
MODE_UNDEF == 0 - 1
MODE_UNSET == 0
MODE_SET == 1
MODE_TOGGLE == 2
ModeReqs == {MODE_UNDEF, MODE_UNSET, MODE_SET, MODE_TOGGLE}

VARIABLES
    ctl_conns,           \* fds of the connections in the TAILQ ctl_conns
    monitor,             \* monitor[fd]: ctl_conn.monitor
    outq,                \* outq[fd]: frames composed on the connection, not yet written
    listening,           \* control_state.fd is registered for POLLIN
    timer,               \* the accept-pause timer is pending
    control_state_tx,    \* control_state.tx: owner fd of the transaction, or -1
    control_state_play,  \* control_state.play: the scratch playlist
    playlist,            \* the live playlist
    play_off,            \* the cursor
    play_state,
    repeat_one,
    repeat_all,
    consume,
    playerq,             \* messages main has sent to the player, not yet read
    player,              \* the player worker: decoding or not, its last codec result
    eventq               \* outcome events of the player, not yet read by main

connVars == <<ctl_conns, monitor, outq>>
acceptVars == <<listening, timer>>
txVars == <<control_state_tx, control_state_play>>
modeVars == <<repeat_one, repeat_all, consume>>
playVars == <<playlist, play_off, play_state, playerq>>
workerVars == <<player, eventq>>
vars == <<connVars, acceptVars, txVars, modeVars, playVars, workerVars>>

\* ---------------------------------------------------------------- frames
\* A frame on a client connection: a reply (type = the imsg type), an error
\* (type "ERR", data the message), or a notification (type "MONITOR", data the
\* event).  list carries the entries of a Show reply.  re is bookkeeping, not
\* part of the frame: the type of the message an error answers.
Frame(type, data, list) == [type |-> type, data |-> data, list |-> list, re |-> ""]
Reply(type) == Frame(type, "", <<>>)
ErrFrame(msg, re) == [type |-> "ERR", data |-> msg, list |-> <<>>, re |-> re]
Event(type) == Frame("MONITOR", type, <<>>)

\* A message to the player worker; song is the file a Play hands over.  by,
\* cmd and seq are bookkeeping, not part of the message: the connection and
\* the type of the command whose handler sent it, and its rank among the
\* pending messages of that connection, in the order main composed them.
PlayerMsg(type, by, seq) ==
    [type |-> type, by |-> by.fd, cmd |-> by.cmd, seq |-> seq, song |-> by.song]
\* the command of type cmd read from connection c
From(c, cmd) == [fd |-> c, cmd |-> cmd, song |-> ""]

SeqsOf(pq, by) == {pq[i].seq : i \in {j \in 1..Len(pq) : pq[j].by = by}}
Ticket(pq, by) ==
    IF SeqsOf(pq, by) = {}
    THEN 1
    ELSE 1 + (CHOOSE m \in SeqsOf(pq, by) : \A k \in SeqsOf(pq, by) : k <= m)

\* imsg_compose_event on connection c
imsg_compose_event(q, c, frame) == [q EXCEPT ![c] = Append(@, frame)]

\* main_senderr: an Error frame on the originating connection
main_senderr(q, c, msg, re) == imsg_compose_event(q, c, ErrFrame(msg, re))

\* control_notify that does not look at the monitor flag
control_notify_all(q, type) ==
    [c \in FDs |-> IF c \in ctl_conns THEN Append(q[c], Event(type)) ELSE q[c]]

\* control_notify: one notification on every connection whose monitor flag is set
control_notify(q, type) ==
    [c \in FDs |-> IF c \in ctl_conns /\ monitor[c]
                   THEN Append(q[c], Event(type))
                   ELSE q[c]]

\* seq counted again from 1 for the messages still pending
Rerank(pq) ==
    [i \in 1..Len(pq) |->
        [pq[i] EXCEPT !.seq = 1 + Cardinality({k \in SeqsOf(pq, pq[i].by) : k < pq[i].seq})]]

\* main_send_player: the message goes to the tail of the player socket's buffer
main_send_player(pq, type, by) == Append(pq, PlayerMsg(type, by, Ticket(pq, by.fd)))

\* ---------------------------------------------------------------- init
Init ==
    /\ ctl_conns = {}
    /\ monitor = [c \in FDs |-> FALSE]
    /\ outq = [c \in FDs |-> <<>>]
    /\ listening = TRUE
    /\ timer = FALSE
    /\ control_state_tx = -1
    /\ control_state_play = <<>>
    /\ playlist = <<>>
    /\ play_off = -1
    /\ play_state = STATE_STOPPED
    /\ repeat_one = 0
    /\ repeat_all = 0
    /\ consume = 0
    /\ playerq = <<>>
    /\ player = [playing |-> FALSE, ret |-> 0, why |-> "none", song |-> ""]
    /\ eventq = <<>>

\* The output buffers and the player socket stay within the model's bounds.
Bounded ==
    /\ \A c \in FDs : Len(outq'[c]) <= MaxOut
    /\ Len(playerq') <= MaxPlayerQ

\* ---------------------------------------------------------------- accept
\* enable_accept: the timer callback re-registers the listening fd
enable_accept ==
    /\ timer
    /\ timer' = FALSE
    /\ listening' = TRUE
    /\ UNCHANGED <<workerVars, connVars, txVars, modeVars, playVars>>

\* control_accept, accept4 succeeds: a new ctl_conn (calloc: monitor = 0)
control_accept_ok ==
    /\ listening
    /\ \E fd \in FDs \ ctl_conns :
        /\ ctl_conns' = ctl_conns \cup {fd}
        /\ monitor' = [monitor EXCEPT ![fd] = FALSE]
        /\ outq' = [outq EXCEPT ![fd] = <<>>]
    /\ UNCHANGED <<workerVars, acceptVars, txVars, modeVars, playVars>>

\* control_accept on EMFILE/ENFILE that arms no timer
control_accept_emfile_notimer ==
    /\ listening
    /\ ctl_conns = FDs
    /\ listening' = FALSE
    /\ timer' = FALSE
    /\ UNCHANGED <<workerVars, connVars, txVars, modeVars, playVars>>

\* control_accept, accept4 fails with EMFILE/ENFILE: pause accepting for 1 s
control_accept_emfile ==
    /\ listening
    /\ ctl_conns = FDs
    /\ listening' = FALSE
    /\ timer' = TRUE
    /\ UNCHANGED <<workerVars, connVars, txVars, modeVars, playVars>>

\* ---------------------------------------------------------------- close
\* control_close that leaves the connection in the TAILQ
control_close_noremove(fd) ==
    /\ IF control_state_tx # -1 /\ fd = control_state_tx
       THEN /\ control_state_play' = <<>>
            /\ control_state_tx' = -1
       ELSE UNCHANGED txVars
    /\ outq' = [outq EXCEPT ![fd] = <<>>]
    /\ UNCHANGED <<monitor, ctl_conns>>
    /\ IF timer
       THEN /\ timer' = FALSE
            /\ listening' = TRUE
       ELSE UNCHANGED acceptVars

\* control_close that resets the owner and keeps the scratch playlist
control_close_keepplay(fd) ==
    /\ IF control_state_tx # -1 /\ fd = control_state_tx
       THEN /\ control_state_tx' = -1
            /\ UNCHANGED control_state_play
       ELSE UNCHANGED txVars
    /\ outq' = [outq EXCEPT ![fd] = <<>>]
    /\ monitor' = [monitor EXCEPT ![fd] = FALSE]
    /\ ctl_conns' = ctl_conns \ {fd}
    /\ IF timer
       THEN /\ timer' = FALSE
            /\ listening' = TRUE
       ELSE UNCHANGED acceptVars

\* control_close that registers the listening fd and leaves the timer pending
control_close_keeptimer(fd) ==
    /\ IF control_state_tx # -1 /\ fd = control_state_tx
       THEN /\ control_state_play' = <<>>
            /\ control_state_tx' = -1
       ELSE UNCHANGED txVars
    /\ outq' = [outq EXCEPT ![fd] = <<>>]
    /\ monitor' = [monitor EXCEPT ![fd] = FALSE]
    /\ ctl_conns' = ctl_conns \ {fd}
    /\ IF timer
       THEN /\ listening' = TRUE
            /\ UNCHANGED timer
       ELSE UNCHANGED acceptVars

\* control_close that forgets the transaction of the closed connection
control_close_keeptx(fd) ==
    /\ UNCHANGED txVars
    /\ outq' = [outq EXCEPT ![fd] = <<>>]
    /\ monitor' = [monitor EXCEPT ![fd] = FALSE]
    /\ ctl_conns' = ctl_conns \ {fd}
    /\ IF timer
       THEN /\ timer' = FALSE
            /\ listening' = TRUE
       ELSE UNCHANGED acceptVars

\* control_close: the transaction of this connection is aborted, its pending
\* output dropped, the connection removed, and accepting resumed if paused.
control_close(fd) ==
    /\ IF control_state_tx # -1 /\ fd = control_state_tx
       THEN /\ control_state_play' = <<>>
            /\ control_state_tx' = -1
       ELSE UNCHANGED txVars
    /\ outq' = [outq EXCEPT ![fd] = <<>>]
    /\ monitor' = [monitor EXCEPT ![fd] = FALSE]
    /\ ctl_conns' = ctl_conns \ {fd}
    /\ IF timer
       THEN /\ timer' = FALSE
            /\ listening' = TRUE
       ELSE UNCHANGED acceptVars

\* control_dispatch_imsg, POLLIN: imsg_read returns 0 (EOF) or fails
HandleReadEOF(c) ==
    /\ c \in ctl_conns
    /\ control_close(c)
    /\ UNCHANGED <<workerVars, modeVars, playVars>>

\* control_dispatch_imsg, POLLOUT: msgbuf_write fails
HandleWriteError(c) ==
    /\ c \in ctl_conns
    /\ outq[c] # <<>>
    /\ control_close(c)
    /\ UNCHANGED <<workerVars, modeVars, playVars>>

\* control_dispatch_imsg, POLLOUT: msgbuf_write sends the first n buffered
\* frames, as many as the socket takes
HandleWrite(c) ==
    /\ c \in ctl_conns
    /\ \E n \in 1..Len(outq[c]) :
            outq' = [outq EXCEPT ![c] = SubSeq(@, n + 1, Len(@))]
    /\ UNCHANGED <<workerVars, ctl_conns, monitor, acceptVars, txVars, modeVars, playVars>>

\* control_dispatch_imsg: imsg_get fails on a malformed frame
HandleBadFrame(c) ==
    /\ c \in ctl_conns
    /\ control_close(c)
    /\ UNCHANGED <<workerVars, modeVars, playVars>>

\* ---------------------------------------------------------------- playback
\* The playback part of main's state, as the helpers of amused.c and
\* playlist.c read and write it.
PlayRec == [playlist |-> playlist, play_off |-> play_off,
            play_state |-> play_state, playerq |-> playerq]

Max(a, b) == IF a >= b THEN a ELSE b
Min(a, b) == IF a <= b THEN a ELSE b

\* main_play_song: the file is opened and handed to the worker with a Play
main_play_song(r, by) ==
    [r EXCEPT !.play_state = STATE_PLAYING,
              !.playerq = main_send_player(r.playerq, "PLAY",
                              [by EXCEPT !.song = r.playlist[r.play_off + 1]])]

\* the playlist ran out: stop, cursor before the first entry
playlist_end(r) == [r EXCEPT !.play_state = STATE_STOPPED, !.play_off = -1]

\* main_playlist_resume: play the current entry, the first one if the cursor is -1
main_playlist_resume(r, by) ==
    IF Len(r.playlist) = 0
    THEN r
    ELSE main_play_song(
            [r EXCEPT !.play_off = IF r.play_off = -1 THEN 0 ELSE r.play_off], by)

\* the cursor moved to off: wrap with repeat_all, stop at the end without it
play_from(r, off, by) ==
    IF off < Len(r.playlist)
    THEN main_play_song([r EXCEPT !.play_off = off], by)
    ELSE IF repeat_all = 1 /\ Len(r.playlist) > 0
         THEN main_play_song([r EXCEPT !.play_off = 0], by)
         ELSE playlist_end(r)

RemoveAt(s, i) == SubSeq(s, 1, i - 1) \o SubSeq(s, i + 1, Len(s))

\* main_playlist_advance: the advancement rule
main_playlist_advance(r, by) ==
    IF Len(r.playlist) = 0
    THEN playlist_end(r)
    ELSE IF consume = 1 /\ r.play_off # -1
    THEN play_from([r EXCEPT !.playlist = RemoveAt(r.playlist, r.play_off + 1)],
                   r.play_off, by)
    ELSE IF repeat_one = 1 /\ r.play_off # -1
    THEN main_play_song(r, by)
    ELSE play_from(r, r.play_off + 1, by)

\* main_playlist_previous: the previous rule
main_playlist_previous(r, by) ==
    IF Len(r.playlist) = 0
    THEN playlist_end(r)
    ELSE main_play_song(
            [r EXCEPT !.play_off = IF r.play_state = STATE_STOPPED
                                   THEN 0
                                   ELSE Max(r.play_off - 1, 0)], by)

\* playlist_truncate: drop the entries past the cursor, reset the cursor and
\* stop
playlist_truncate(r) ==
    [r EXCEPT !.playlist = SubSeq(r.playlist, 1, r.play_off + 1),
              !.play_off = -1,
              !.play_state = STATE_STOPPED]

\* playlist_swap that leaves the cursor where it was
playlist_swap_keepcursor(r, p, off) ==
    IF off < 0
    THEN [r EXCEPT !.playlist = r.playlist \o p]
    ELSE [r EXCEPT !.playlist = SubSeq(r.playlist, 1, Min(off, Len(r.playlist))) \o p]

\* playlist_swap: splice the scratch playlist into the live one.  off < 0
\* appends; off >= 0 replaces the entries from index off on, and a cursor in
\* the replaced part is reset with playback stopped.
playlist_swap(r, p, off) ==
    IF off < 0
    THEN [r EXCEPT !.playlist = r.playlist \o p]
    ELSE LET k == Min(off, Len(r.playlist))
             q == [r EXCEPT !.playlist = SubSeq(r.playlist, 1, k) \o p]
         IN  IF r.play_off >= k THEN playlist_end(q) ELSE q

\* index of the first entry equal to path, 0 if there is none
IndexOf(s, path) ==
    IF \E i \in 1..Len(s) : s[i] = path
    THEN CHOOSE i \in 1..Len(s) : s[i] = path /\ \A j \in 1..(i - 1) : s[j] # path
    ELSE 0

SetPlay(r) ==
    /\ playlist' = r.playlist
    /\ play_off' = r.play_off
    /\ play_state' = r.play_state
    /\ playerq' = r.playerq

\* ---------------------------------------------------------------- dispatch
\* control_dispatch_imsg, one action per imsg.hdr.type.  c is the connection
\* the message was read from.

\* IMSG_CTL_PLAY with its message for the worker put ahead of the pending ones
CtlPlay_front(c) ==
    /\ c \in ctl_conns
    /\ LET r == IF play_state = STATE_STOPPED
                THEN main_playlist_resume(PlayRec, From(c, "PLAY"))
                ELSE IF play_state = STATE_PAUSED
                THEN [PlayRec EXCEPT
                        !.play_state = STATE_PLAYING,
                        !.playerq = main_send_player(playerq, "RESUME", From(c, "PLAY"))]
                ELSE PlayRec
       IN  SetPlay([r EXCEPT !.playerq =
                SubSeq(r.playerq, Len(playerq) + 1, Len(r.playerq)) \o playerq])
    /\ outq' = control_notify(outq, "PLAY")
    /\ UNCHANGED <<workerVars, ctl_conns, monitor, acceptVars, txVars, modeVars>>
    /\ Bounded

\* IMSG_CTL_PLAY
CtlPlay(c) ==
    /\ c \in ctl_conns
    /\ SetPlay(IF play_state = STATE_STOPPED
               THEN main_playlist_resume(PlayRec, From(c, "PLAY"))
               ELSE IF play_state = STATE_PAUSED
               THEN [PlayRec EXCEPT
                        !.play_state = STATE_PLAYING,
                        !.playerq = main_send_player(playerq, "RESUME", From(c, "PLAY"))]
               ELSE PlayRec)
    /\ outq' = control_notify(outq, "PLAY")
    /\ UNCHANGED <<workerVars, ctl_conns, monitor, acceptVars, txVars, modeVars>>
    /\ Bounded

\* IMSG_CTL_TOGGLE_PLAY
CtlTogglePlay(c) ==
    /\ c \in ctl_conns
    /\ \/ /\ play_state = STATE_STOPPED
          /\ outq' = control_notify(outq, "PLAY")
          /\ SetPlay(main_playlist_resume(PlayRec, From(c, "TOGGLE_PLAY")))
       \/ /\ play_state = STATE_PLAYING
          /\ outq' = control_notify(outq, "PAUSE")
          /\ SetPlay([PlayRec EXCEPT
                        !.play_state = STATE_PAUSED,
                        !.playerq = main_send_player(playerq, "PAUSE", From(c, "TOGGLE_PLAY"))])
       \/ /\ play_state = STATE_PAUSED
          /\ outq' = control_notify(outq, "PLAY")
          /\ SetPlay([PlayRec EXCEPT
                        !.play_state = STATE_PLAYING,
                        !.playerq = main_send_player(playerq, "RESUME", From(c, "TOGGLE_PLAY"))])
    /\ UNCHANGED <<workerVars, ctl_conns, monitor, acceptVars, txVars, modeVars>>
    /\ Bounded

\* IMSG_CTL_PAUSE without the test of play_state
CtlPause_always(c) ==
    /\ c \in ctl_conns
    /\ play_state' = STATE_PAUSED
    /\ playerq' = main_send_player(playerq, "PAUSE", From(c, "PAUSE"))
    /\ outq' = control_notify(outq, "PAUSE")
    /\ UNCHANGED <<playlist, play_off>>
    /\ UNCHANGED <<workerVars, ctl_conns, monitor, acceptVars, txVars, modeVars>>
    /\ Bounded

\* IMSG_CTL_PAUSE
CtlPause(c) ==
    /\ c \in ctl_conns
    /\ IF play_state # STATE_PLAYING
       THEN UNCHANGED <<outq, playVars>>
       ELSE /\ play_state' = STATE_PAUSED
            /\ playerq' = main_send_player(playerq, "PAUSE", From(c, "PAUSE"))
            /\ outq' = control_notify(outq, "PAUSE")
            /\ UNCHANGED <<playlist, play_off>>
    /\ UNCHANGED <<workerVars, ctl_conns, monitor, acceptVars, txVars, modeVars>>
    /\ Bounded

\* IMSG_CTL_STOP without the test of play_state
CtlStop_always(c) ==
    /\ c \in ctl_conns
    /\ play_state' = STATE_STOPPED
    /\ playerq' = main_send_player(playerq, "STOP", From(c, "STOP"))
    /\ outq' = control_notify(outq, "STOP")
    /\ UNCHANGED <<playlist, play_off>>
    /\ UNCHANGED <<workerVars, ctl_conns, monitor, acceptVars, txVars, modeVars>>
    /\ Bounded

\* IMSG_CTL_STOP without the call of control_notify
CtlStop_silent(c) ==
    /\ c \in ctl_conns
    /\ IF play_state = STATE_STOPPED
       THEN UNCHANGED <<outq, playVars>>
       ELSE /\ play_state' = STATE_STOPPED
            /\ playerq' = main_send_player(playerq, "STOP", From(c, "STOP"))
            /\ UNCHANGED <<outq, playlist, play_off>>
    /\ UNCHANGED <<workerVars, ctl_conns, monitor, acceptVars, txVars, modeVars>>
    /\ Bounded

\* IMSG_CTL_STOP
CtlStop(c) ==
    /\ c \in ctl_conns
    /\ IF play_state = STATE_STOPPED
       THEN UNCHANGED <<outq, playVars>>
       ELSE /\ play_state' = STATE_STOPPED
            /\ playerq' = main_send_player(playerq, "STOP", From(c, "STOP"))
            /\ outq' = control_notify(outq, "STOP")
            /\ UNCHANGED <<playlist, play_off>>
    /\ UNCHANGED <<workerVars, ctl_conns, monitor, acceptVars, txVars, modeVars>>
    /\ Bounded

\* IMSG_CTL_FLUSH without the call of playlist_truncate
CtlFlush_notruncate(c) ==
    /\ c \in ctl_conns
    /\ outq' = control_notify(outq, "COMMIT")
    /\ UNCHANGED <<workerVars, ctl_conns, monitor, acceptVars, txVars, modeVars,
                   playVars>>
    /\ Bounded

\* IMSG_CTL_FLUSH
CtlFlush(c) ==
    /\ c \in ctl_conns
    /\ SetPlay(playlist_truncate(PlayRec))
    /\ outq' = control_notify(outq, "COMMIT")
    /\ UNCHANGED <<workerVars, ctl_conns, monitor, acceptVars, txVars, modeVars>>
    /\ Bounded

\* IMSG_CTL_SHOW: main_send_playlist, the entries of the live playlist
CtlShow(c) ==
    /\ c \in ctl_conns
    /\ outq' = imsg_compose_event(outq, c, Frame("SHOW", "", playlist))
    /\ UNCHANGED <<workerVars, ctl_conns, monitor, acceptVars, txVars, modeVars, playVars>>
    /\ Bounded

\* IMSG_CTL_STATUS: main_send_status
CtlStatus(c) ==
    /\ c \in ctl_conns
    /\ outq' = imsg_compose_event(outq, c, Reply("STATUS"))
    /\ UNCHANGED <<workerVars, ctl_conns, monitor, acceptVars, txVars, modeVars, playVars>>
    /\ Bounded

\* IMSG_CTL_NEXT with control_notify called after main_playlist_advance, on
\* the connections in reverse
CtlNext_reorder(c) ==
    /\ c \in ctl_conns
    /\ outq' = [d \in FDs |-> IF d \in ctl_conns /\ monitor[d]
                              THEN <<Event("NEXT")>> \o outq[d]
                              ELSE outq[d]]
    /\ SetPlay(main_playlist_advance(
            [PlayRec EXCEPT
                !.playerq = main_send_player(playerq, "STOP", From(c, "NEXT"))],
            From(c, "NEXT")))
    /\ UNCHANGED <<workerVars, ctl_conns, monitor, acceptVars, txVars, modeVars>>
    /\ Bounded

\* IMSG_CTL_NEXT
CtlNext(c) ==
    /\ c \in ctl_conns
    /\ outq' = control_notify(outq, "NEXT")
    /\ SetPlay(main_playlist_advance(
            [PlayRec EXCEPT !.playerq = main_send_player(playerq, "STOP", From(c, "NEXT"))], From(c, "NEXT")))
    /\ UNCHANGED <<workerVars, ctl_conns, monitor, acceptVars, txVars, modeVars>>
    /\ Bounded

\* IMSG_CTL_PREV
CtlPrev(c) ==
    /\ c \in ctl_conns
    /\ outq' = control_notify(outq, "PREV")
    /\ SetPlay(main_playlist_previous(
            [PlayRec EXCEPT !.playerq = main_send_player(playerq, "STOP", From(c, "PREV"))], From(c, "PREV")))
    /\ UNCHANGED <<workerVars, ctl_conns, monitor, acceptVars, txVars, modeVars>>
    /\ Bounded

\* IMSG_CTL_JUMP: main_playlist_jump
CtlJump(c, path) ==
    /\ c \in ctl_conns
    /\ LET i == IndexOf(playlist, path)
       IN  IF i = 0
           THEN UNCHANGED <<outq, playVars>>
           ELSE /\ outq' = control_notify(outq, "JUMP")
                /\ SetPlay(main_play_song(
                      [PlayRec EXCEPT
                          !.play_off = i - 1,
                          !.playerq = main_send_player(playerq, "STOP", From(c, "JUMP"))], From(c, "JUMP")))
    /\ UNCHANGED <<workerVars, ctl_conns, monitor, acceptVars, txVars, modeVars>>
    /\ Bounded

\* new_mode that takes a toggle request for a set request
new_mode_notoggle(val, newval) ==
    IF newval = MODE_UNDEF
    THEN val
    ELSE (IF newval # 0 THEN 1 ELSE 0)

\* new_mode
new_mode(val, newval) ==
    IF newval = MODE_UNDEF
    THEN val
    ELSE IF newval = MODE_TOGGLE
    THEN (IF val = 0 THEN 1 ELSE 0)
    ELSE (IF newval # 0 THEN 1 ELSE 0)

\* IMSG_CTL_MODE; sizeok: IMSG_DATA_SIZE(imsg) = sizeof(mode)
CtlMode(c, sizeok, mode) ==
    /\ c \in ctl_conns
    /\ IF ~sizeok
       THEN UNCHANGED <<outq, modeVars>>
       ELSE /\ consume' = new_mode(consume, mode.consume)
            /\ repeat_all' = new_mode(repeat_all, mode.repeat_all)
            /\ repeat_one' = new_mode(repeat_one, mode.repeat_one)
            /\ outq' = control_notify(outq, "MODE")
    /\ UNCHANGED <<workerVars, ctl_conns, monitor, acceptVars, txVars, playVars>>
    /\ Bounded

\* IMSG_CTL_BEGIN without the check of control_state.tx
CtlBegin_nolock(c) ==
    /\ c \in ctl_conns
    /\ control_state_tx' = c
    /\ outq' = imsg_compose_event(outq, c, Reply("BEGIN"))
    /\ UNCHANGED <<workerVars, ctl_conns, monitor, acceptVars, control_state_play,
                   modeVars, playVars>>
    /\ Bounded

\* IMSG_CTL_BEGIN
CtlBegin(c) ==
    /\ c \in ctl_conns
    /\ IF control_state_tx # -1
       THEN /\ outq' = main_senderr(outq, c, "locked", "BEGIN")
            /\ UNCHANGED control_state_tx
       ELSE /\ control_state_tx' = c
            /\ outq' = imsg_compose_event(outq, c, Reply("BEGIN"))
    /\ UNCHANGED <<workerVars, ctl_conns, monitor, acceptVars, control_state_play,
                   modeVars, playVars>>
    /\ Bounded

\* main_enqueue: the path goes to the scratch playlist (tx) or to the live one,
\* and is echoed to the sender; a payload of the wrong size is an error.
\* Yields the output buffers, the scratch and the live playlist.
main_enqueue(intx, q, c, sizeok, path) ==
    IF ~sizeok
    THEN [outq |-> main_senderr(q, c, "wrong size", "ADD"),
          play |-> control_state_play, playlist |-> playlist]
    ELSE [outq |-> imsg_compose_event(q, c, Frame("ADD", path, <<>>)),
          play |-> IF intx THEN Append(control_state_play, path)
                           ELSE control_state_play,
          playlist |-> IF intx THEN playlist ELSE Append(playlist, path)]

\* IMSG_CTL_ADD with main_enqueue told that no transaction is open
CtlAdd_live(c, sizeok, path) ==
    /\ c \in ctl_conns
    /\ IF control_state_tx # -1 /\ control_state_tx # c
       THEN /\ outq' = main_senderr(outq, c, "locked", "ADD")
            /\ UNCHANGED <<control_state_play, playlist>>
       ELSE LET r == main_enqueue(FALSE, outq, c, sizeok, path)
            IN  /\ control_state_play' = r.play
                /\ playlist' = r.playlist
                /\ outq' = IF control_state_tx = -1
                           THEN control_notify(r.outq, "ADD")
                           ELSE r.outq
    /\ Len(playlist') <= MaxLen
    /\ Len(control_state_play') <= MaxLen
    /\ UNCHANGED <<workerVars, ctl_conns, monitor, acceptVars, control_state_tx, modeVars,
                   play_off, play_state, playerq>>
    /\ Bounded

\* IMSG_CTL_ADD
CtlAdd(c, sizeok, path) ==
    /\ c \in ctl_conns
    /\ IF control_state_tx # -1 /\ control_state_tx # c
       THEN /\ outq' = main_senderr(outq, c, "locked", "ADD")
            /\ UNCHANGED <<control_state_play, playlist>>
       ELSE LET r == main_enqueue(control_state_tx # -1, outq, c, sizeok, path)
            IN  /\ control_state_play' = r.play
                /\ playlist' = r.playlist
                /\ outq' = IF control_state_tx = -1
                           THEN control_notify(r.outq, "ADD")
                           ELSE r.outq
    /\ Len(playlist') <= MaxLen
    /\ Len(control_state_play') <= MaxLen
    /\ UNCHANGED <<workerVars, ctl_conns, monitor, acceptVars, control_state_tx, modeVars,
                   play_off, play_state, playerq>>
    /\ Bounded

\* IMSG_CTL_COMMIT that checks only that a transaction is open
CtlCommit_anyowner(c, sizeok, off) ==
    /\ c \in ctl_conns
    /\ IF control_state_tx = -1
       THEN /\ outq' = main_senderr(outq, c, "locked", "COMMIT")
            /\ UNCHANGED <<txVars, playVars>>
       ELSE IF ~sizeok
       THEN /\ outq' = main_senderr(outq, c, "wrong size", "COMMIT")
            /\ UNCHANGED <<txVars, playVars>>
       ELSE /\ SetPlay(playlist_swap(PlayRec, control_state_play, off))
            /\ control_state_play' = <<>>
            /\ control_state_tx' = -1
            /\ outq' = control_notify(
                          imsg_compose_event(outq, c, Reply("COMMIT")), "COMMIT")
    /\ Len(playlist') <= MaxLen
    /\ UNCHANGED <<workerVars, ctl_conns, monitor, acceptVars, modeVars>>
    /\ Bounded

\* IMSG_CTL_COMMIT that gives the transaction up on a payload of the wrong size
CtlCommit_abort(c, sizeok, off) ==
    /\ c \in ctl_conns
    /\ IF control_state_tx # c
       THEN /\ outq' = main_senderr(outq, c, "locked", "COMMIT")
            /\ UNCHANGED <<txVars, playVars>>
       ELSE IF ~sizeok
       THEN /\ outq' = main_senderr(outq, c, "wrong size", "COMMIT")
            /\ control_state_play' = <<>>
            /\ control_state_tx' = -1
            /\ UNCHANGED playVars
       ELSE /\ SetPlay(playlist_swap(PlayRec, control_state_play, off))
            /\ control_state_play' = <<>>
            /\ control_state_tx' = -1
            /\ outq' = control_notify(
                          imsg_compose_event(outq, c, Reply("COMMIT")), "COMMIT")
    /\ Len(playlist') <= MaxLen
    /\ UNCHANGED <<workerVars, ctl_conns, monitor, acceptVars, modeVars>>
    /\ Bounded

\* IMSG_CTL_COMMIT; sizeok: IMSG_DATA_SIZE(imsg) = sizeof(off)
CtlCommit(c, sizeok, off) ==
    /\ c \in ctl_conns
    /\ IF control_state_tx # c
       THEN /\ outq' = main_senderr(outq, c, "locked", "COMMIT")
            /\ UNCHANGED <<txVars, playVars>>
       ELSE IF ~sizeok
       THEN /\ outq' = main_senderr(outq, c, "wrong size", "COMMIT")
            /\ UNCHANGED <<txVars, playVars>>
       ELSE /\ SetPlay(playlist_swap(PlayRec, control_state_play, off))
            /\ control_state_play' = <<>>
            /\ control_state_tx' = -1
            /\ outq' = control_notify(
                          imsg_compose_event(outq, c, Reply("COMMIT")), "COMMIT")
    /\ Len(playlist') <= MaxLen
    /\ UNCHANGED <<workerVars, ctl_conns, monitor, acceptVars, modeVars>>
    /\ Bounded

\* IMSG_CTL_MONITOR
CtlMonitor(c) ==
    /\ c \in ctl_conns
    /\ monitor' = [monitor EXCEPT ![c] = TRUE]
    /\ UNCHANGED <<workerVars, ctl_conns, outq, acceptVars, txVars, modeVars, playVars>>

\* IMSG_CTL_SEEK; sizeok: IMSG_DATA_SIZE(imsg) = sizeof(seek)
CtlSeek(c, sizeok) ==
    /\ c \in ctl_conns
    /\ IF ~sizeok
       THEN /\ outq' = main_senderr(outq, c, "wrong size", "SEEK")
            /\ UNCHANGED playerq
       ELSE /\ playerq' = main_send_player(playerq, "SEEK", From(c, "SEEK"))
            /\ UNCHANGED outq
    /\ UNCHANGED <<workerVars, ctl_conns, monitor, acceptVars, txVars, modeVars,
                   playlist, play_off, play_state>>
    /\ Bounded

\* default: a message of unknown type is logged and dropped
CtlUnknown(c) ==
    /\ c \in ctl_conns
    /\ UNCHANGED vars

\* The worker reads the next message from its socket.
PlayerRead ==
    /\ playerq # <<>>
    /\ playerq' = Rerank(Tail(playerq))
    /\ UNCHANGED <<workerVars, connVars, acceptVars, txVars, modeVars,
                   playlist, play_off, play_state>>

\* ---------------------------------------------------------------- codec
\* play_oggvorbis.  isogg: ov_open_callbacks accepts the input.  reads is what
\* the decode loop meets, one element per turn: "eof" (ov_read returns 0),
\* "data" (ov_read returns a chunk and play takes it), "stop" (ov_read returns
\* a chunk and play returns 0 because the player was told to stop), "hole"
\* (ov_read returns an error code).
\*
\* The loop declares its own ret (line 70): the assignments in the loop go to
\* that one, and the function returns the ret of line 48.
RECURSIVE decode_loop(_, _)
decode_loop(reads, ret) ==
    IF reads = <<>>
    THEN ret
    ELSE LET inner == Head(reads)
         IN  IF inner = "eof"
             THEN ret                                  \* eof = 1, loop ends
             ELSE IF inner = "stop"
             THEN ret                                  \* inner ret = 1; break
             ELSE decode_loop(Tail(reads), ret)

play_oggvorbis(isogg, reads) ==
    IF ~isogg
    THEN 0 - 1                                         \* ret = -1; goto end
    ELSE decode_loop(reads, 0)

\* turns of the decode loop before the one that ends it
MaxReads == 1
Chunks ==
    UNION {[1..n -> {"data", "hole"}] : n \in 0..MaxReads}

\* the outcome the worker reports for a result of the codec
player_outcome(ret) ==
    IF ret = 0 THEN "FINISHED" ELSE IF ret = 1 THEN "STOPPED" ELSE "ERROR"

\* an outcome event; song and why are bookkeeping, not part of the event: the
\* file that was decoded and how its decoding ended
PlayerEvent(ret, song, why) ==
    [type |-> player_outcome(ret), song |-> song, why |-> why]

\* events of the player main has not read yet
MaxEvents == 2

\* ---------------------------------------------------------------- player
\* The worker is idle and takes a Play: the codec is entered.  An input that
\* is not an Ogg bitstream makes it return at once.
player_play ==
    /\ ~player.playing
    /\ playerq # <<>>
    /\ Head(playerq).type = "PLAY"
    /\ playerq' = Rerank(Tail(playerq))
    /\ \E isogg \in BOOLEAN :
          IF isogg
          THEN /\ player' = [playing |-> TRUE, ret |-> player.ret,
                             why |-> "none", song |-> Head(playerq).song]
               /\ UNCHANGED eventq
          ELSE LET ret == play_oggvorbis(FALSE, <<>>)
               IN  /\ player' = [playing |-> FALSE, ret |-> ret,
                                 why |-> "notogg", song |-> Head(playerq).song]
                   /\ eventq' = Append(eventq,
                          PlayerEvent(ret, Head(playerq).song, "notogg"))
    /\ Len(eventq') <= MaxEvents
    /\ UNCHANGED <<connVars, acceptVars, txVars, modeVars,
                   playlist, play_off, play_state>>

\* The worker takes a message that starts or ends nothing: any but Play when
\* idle, Pause, Resume and Seek while decoding.
player_skip ==
    /\ playerq # <<>>
    /\ IF player.playing
       THEN Head(playerq).type \in {"PAUSE", "RESUME", "SEEK"}
       ELSE Head(playerq).type # "PLAY"
    /\ playerq' = Rerank(Tail(playerq))
    /\ UNCHANGED <<connVars, acceptVars, txVars, modeVars, workerVars,
                   playlist, play_off, play_state>>

\* play_oggvorbis returns at the end of the stream, and the worker reports
\* the outcome.
play_oggvorbis_eof ==
    /\ player.playing
    /\ \E chunks \in Chunks :
          LET ret == play_oggvorbis(TRUE, chunks \o <<"eof">>)
          IN  /\ player' = [player EXCEPT !.playing = FALSE, !.ret = ret,
                                          !.why = "eof"]
              /\ eventq' = Append(eventq, PlayerEvent(ret, player.song, "eof"))
    /\ Len(eventq') <= MaxEvents
    /\ UNCHANGED <<connVars, acceptVars, txVars, modeVars, playVars>>

\* play finds a Stop on the worker's socket and returns 0 to the decode loop;
\* play_oggvorbis returns and the worker reports the outcome.
play_oggvorbis_stop ==
    /\ player.playing
    /\ playerq # <<>>
    /\ Head(playerq).type = "STOP"
    /\ playerq' = Rerank(Tail(playerq))
    /\ \E chunks \in Chunks :
          LET ret == play_oggvorbis(TRUE, chunks \o <<"stop">>)
          IN  /\ player' = [player EXCEPT !.playing = FALSE, !.ret = ret,
                                          !.why = "stop"]
              /\ eventq' = Append(eventq, PlayerEvent(ret, player.song, "stop"))
    /\ Len(eventq') <= MaxEvents
    /\ UNCHANGED <<connVars, acceptVars, txVars, modeVars,
                   playlist, play_off, play_state>>

\* main reads an outcome event of the player.  The end of a track, and a
\* codec error alike, advance the playlist by the advancement rule; the
\* outcome of a stopped track needs nothing.
main_dispatch_player ==
    /\ eventq # <<>>
    /\ eventq' = Tail(eventq)
    /\ IF Head(eventq).type = "STOPPED"
       THEN UNCHANGED <<outq, playVars>>
       ELSE LET r == main_playlist_advance(PlayRec, From(0, "EOF"))
            IN  /\ SetPlay(r)
                /\ outq' = control_notify(outq,
                               IF r.play_state = STATE_PLAYING
                               THEN "NEXT" ELSE "STOP")
    /\ UNCHANGED <<ctl_conns, monitor, acceptVars, txVars, modeVars, player>>
    /\ Bounded

ModeMsgs == [consume : ModeReqs, repeat_all : ModeReqs, repeat_one : ModeReqs]
\* the requests that leave at least two of the three modes alone
ModeOne ==
    {m \in ModeMsgs : Cardinality({f \in {"consume", "repeat_all", "repeat_one"} :
                                      m[f] # MODE_UNDEF}) <= 1}
\* the request that leaves all three modes alone
ModeLeave ==
    [consume |-> MODE_UNDEF, repeat_all |-> MODE_UNDEF, repeat_one |-> MODE_UNDEF]
Offsets == (0 - 1)..MaxLen

\* Every frame composed so far has been written to its socket.
Drained == \A c \in FDs : outq[c] = <<>>

\* ... and the worker has read every message sent to it.
Quiet == Drained /\ playerq = <<>>

\* The transaction scenario: clients connect, disconnect, subscribe, enqueue
\* inside and outside transactions, list and flush the playlist, and send
\* frames the dispatcher rejects.  Pending output is written before the next
\* message is dispatched.
Next ==
    \/ enable_accept
    \/ control_accept_ok
    \/ control_accept_emfile
    \/ \E c \in FDs : HandleReadEOF(c)
    \/ \E c \in FDs : HandleWriteError(c)
    \/ \E c \in FDs : HandleWrite(c)
    \/ \E c \in FDs : HandleBadFrame(c)
    \/ Drained /\ \E c \in FDs : CtlFlush(c)
    \/ Drained /\ \E c \in FDs : CtlShow(c)
    \/ Drained /\ \E c \in FDs : CtlBegin(c)
    \/ Drained /\ \E c \in FDs, sizeok \in BOOLEAN, path \in Paths :
            CtlAdd(c, sizeok, path)
    \/ Drained /\ \E c \in FDs, sizeok \in BOOLEAN, off \in Offsets :
            CtlCommit(c, sizeok, off)
    \/ Drained /\ \E c \in FDs : CtlMonitor(c)
    \/ Drained /\ \E c \in FDs, sizeok \in BOOLEAN : CtlSeek(c, sizeok)
    \/ Drained /\ \E c \in FDs : CtlMode(c, FALSE, ModeLeave)
    \/ Drained /\ \E c \in FDs : CtlUnknown(c)
    \/ PlayerRead

Spec == Init /\ [][Next]_vars

\* The notification scenario: clients subscribe and send the commands that
\* change the play state, the cursor, the modes and the live playlist.
NextNotify ==
    \/ control_accept_ok
    \/ \E c \in FDs : HandleReadEOF(c)
    \/ \E c \in FDs : HandleWrite(c)
    \/ Quiet /\ \E c \in FDs : CtlMonitor(c)
    \/ Quiet /\ \E c \in FDs : CtlBegin(c)
    \/ Quiet /\ \E c \in FDs, path \in Paths : CtlAdd(c, TRUE, path)
    \/ Quiet /\ \E c \in FDs, off \in Offsets : CtlCommit(c, TRUE, off)
    \/ Quiet /\ \E c \in FDs : CtlPlay(c)
    \/ Quiet /\ \E c \in FDs : CtlTogglePlay(c)
    \/ Quiet /\ \E c \in FDs : CtlPause(c)
    \/ Quiet /\ \E c \in FDs : CtlStop(c)
    \/ Quiet /\ \E c \in FDs : CtlNext(c)
    \/ Quiet /\ \E c \in FDs : CtlPrev(c)
    \/ Quiet /\ \E c \in FDs, path \in Paths : CtlJump(c, path)
    \/ Quiet /\ \E c \in FDs : CtlFlush(c)
    \/ Quiet /\ \E c \in FDs, sizeok \in BOOLEAN, mode \in ModeOne :
            CtlMode(c, sizeok, mode)
    \/ PlayerRead

SpecNotify == Init /\ [][NextNotify]_vars

\* The ordering scenario: output stays buffered while further commands are
\* dispatched, so a monitor's buffer holds the events of several commands.
NextOrder ==
    \/ control_accept_ok
    \/ \E c \in FDs : HandleReadEOF(c)
    \/ \E c \in FDs : HandleWrite(c)
    \/ \E c \in FDs : CtlMonitor(c)
    \/ \E c \in FDs : CtlAdd(c, TRUE, "a")
    \/ \E c \in FDs : CtlPlay(c)
    \/ \E c \in FDs : CtlTogglePlay(c)
    \/ \E c \in FDs : CtlStop(c)
    \/ \E c \in FDs : CtlNext(c)
    \/ \E c \in FDs : CtlPrev(c)
    \/ PlayerRead

SpecOrder == Init /\ [][NextOrder]_vars

\* The playback scenario: clients enqueue songs and drive the player.
NextPlayer ==
    \/ control_accept_ok
    \/ \E c \in FDs : HandleReadEOF(c)
    \/ \E c \in FDs : HandleWrite(c)
    \/ Drained /\ \E c \in FDs, path \in Paths : CtlAdd(c, TRUE, path)
    \/ Drained /\ \E c \in FDs : CtlPlay(c)
    \/ Drained /\ \E c \in FDs : CtlTogglePlay(c)
    \/ Drained /\ \E c \in FDs : CtlPause(c)
    \/ Drained /\ \E c \in FDs : CtlStop(c)
    \/ Drained /\ \E c \in FDs : CtlNext(c)
    \/ Drained /\ \E c \in FDs : CtlPrev(c)
    \/ Drained /\ \E c \in FDs, path \in Paths : CtlJump(c, path)
    \/ Drained /\ \E c \in FDs, sizeok \in BOOLEAN : CtlSeek(c, sizeok)
    \/ Drained /\ \E c \in FDs : CtlStatus(c)
    \/ PlayerRead

SpecPlayer == Init /\ [][NextPlayer]_vars

\* The playback scenario with the worker: a client enqueues songs and drives
\* the player while the worker decodes what it is handed and reports how each
\* track ended.  Commands, worker and outcome events interleave freely.
NextWorker ==
    \/ ctl_conns = {} /\ control_accept_ok
    \/ \E c \in FDs : HandleWrite(c)
    \/ Drained /\ \E c \in FDs, path \in Paths : CtlAdd(c, TRUE, path)
    \/ Drained /\ \E c \in FDs : CtlPlay(c)
    \/ Drained /\ \E c \in FDs : CtlStop(c)
    \/ Drained /\ \E c \in FDs : CtlNext(c)
    \/ player_play
    \/ player_skip
    \/ play_oggvorbis_eof
    \/ play_oggvorbis_stop
    \/ main_dispatch_player

SpecWorker == Init /\ [][NextWorker]_vars

\* Nothing is in flight between main, its clients and the worker.
Settled == Quiet /\ eventq = <<>>

\* The playlist scenario: every command that touches the playlist, the cursor
\* or the play state, and the ends of the tracks the worker plays.  A command
\* is dispatched once the effects of the one before have settled.
NextCursor ==
    \/ ctl_conns = {} /\ control_accept_ok
    \/ \E c \in FDs : HandleReadEOF(c)
    \/ \E c \in FDs : HandleWrite(c)
    \/ Settled /\ \E c \in FDs : CtlMonitor(c)
    \/ Settled /\ \E c \in FDs, path \in Paths : CtlAdd(c, TRUE, path)
    \/ Settled /\ \E c \in FDs : CtlBegin(c)
    \/ Settled /\ \E c \in FDs, off \in Offsets : CtlCommit(c, TRUE, off)
    \/ Settled /\ \E c \in FDs : CtlPlay(c)
    \/ Settled /\ \E c \in FDs : CtlTogglePlay(c)
    \/ Settled /\ \E c \in FDs : CtlPause(c)
    \/ Settled /\ \E c \in FDs : CtlStop(c)
    \/ Settled /\ \E c \in FDs : CtlNext(c)
    \/ Settled /\ \E c \in FDs : CtlPrev(c)
    \/ Settled /\ \E c \in FDs, path \in Paths : CtlJump(c, path)
    \/ Settled /\ \E c \in FDs : CtlFlush(c)
    \/ Settled /\ \E c \in FDs, mode \in ModeOne : CtlMode(c, TRUE, mode)
    \/ player_play
    \/ player_skip
    \/ play_oggvorbis_eof
    \/ play_oggvorbis_stop
    \/ main_dispatch_player

SpecCursor == Init /\ [][NextCursor]_vars

\* The mode scenario: clients subscribe and send every mode request.
NextMode ==
    \/ control_accept_ok
    \/ \E c \in FDs : HandleReadEOF(c)
    \/ \E c \in FDs : HandleWrite(c)
    \/ \E c \in FDs : CtlMonitor(c)
    \/ \E c \in FDs, sizeok \in BOOLEAN, mode \in ModeMsgs : CtlMode(c, sizeok, mode)

SpecMode == Init /\ [][NextMode]_vars

\* The accept scenario: clients connect until the process is out of file
\* descriptors, subscribe, open transactions and disconnect.  The event loop
\* runs the timer callback once the pause is over.
NextAccept ==
    \/ enable_accept
    \/ control_accept_ok
    \/ control_accept_emfile
    \/ \E c \in FDs : HandleReadEOF(c)
    \/ \E c \in FDs : HandleWriteError(c)
    \/ \E c \in FDs : HandleWrite(c)
    \/ \E c \in FDs : CtlMonitor(c)
    \/ \E c \in FDs : CtlBegin(c)
    \/ \E c \in FDs, path \in Paths : CtlAdd(c, TRUE, path)

SpecAccept == Init /\ [][NextAccept]_vars /\ WF_vars(enable_accept)

\* ---------------------------------------------------------------- claims
Last(q) == q[Len(q)]
IsPrefix(p, q) == Len(p) <= Len(q) /\ SubSeq(q, 1, Len(p)) = p
IsSuffix(p, q) == Len(p) <= Len(q) /\ SubSeq(q, Len(q) - Len(p) + 1, Len(q)) = p
\* the events among the frames of an output buffer, in order
EventsOf(q) == SelectSeq(q, LAMBDA f : f.type = "MONITOR")
\* the frames a step appended to the output buffer of c
Gained(c) == SubSeq(outq'[c], Len(outq[c]) + 1, Len(outq'[c]))

\* C1: at most one connection owns the transaction.  The owner becomes a
\* connection only when there was none, and that connection then gets the
\* Begin-ack; a Begin from a connection other than the owner is answered with
\* Error "locked" and leaves the owner and the scratch playlist as they were.
C1_BeginExclusive ==
    [][/\ (control_state_tx' # control_state_tx /\ control_state_tx' # -1)
            => /\ control_state_tx = -1
               /\ outq'[control_state_tx'] =
                    Append(outq[control_state_tx'], Reply("BEGIN"))
       /\ \A c \in FDs :
            (control_state_tx # -1 /\ control_state_tx # c /\ CtlBegin(c))
            => /\ UNCHANGED txVars
               /\ outq' = [outq EXCEPT ![c] = Append(@, ErrFrame("locked", "BEGIN"))]
      ]_vars

\* C1 witness: one connection owns the transaction with a path in it, and
\* another one has just been refused.
C1_Witness ==
    \E c \in ctl_conns, d \in ctl_conns :
        /\ c # d
        /\ control_state_tx = c
        /\ control_state_play # <<>>
        /\ outq[d] = <<ErrFrame("locked", "BEGIN")>>

\* C2: Begin; (Add)*; Commit is atomic for observers.  While a transaction is
\* open the live playlist never grows and no Add event is broadcast; it changes
\* only by a flush (to a prefix of itself) or by the owner's Commit, which puts
\* the whole scratch playlist at its end, answers the owner and broadcasts
\* Commit.  A Show lists the live playlist.
C2_TxAtomic ==
    [][/\ control_state_tx # -1 =>
            /\ \A d \in FDs : outq'[d] # outq[d] =>
                    Event("ADD") \notin {outq'[d][i] : i \in 1..Len(outq'[d])}
            /\ \/ playlist' = playlist
               \/ Len(playlist') < Len(playlist) /\ IsPrefix(playlist', playlist)
               \/ /\ control_state_tx' = -1
                  /\ control_state_play' = <<>>
                  /\ IsSuffix(control_state_play, playlist')
                  /\ Reply("COMMIT") \in
                        {outq'[control_state_tx][i] :
                            i \in 1..Len(outq'[control_state_tx])}
       /\ \A c \in FDs : CtlShow(c) =>
            Gained(c) = <<Frame("SHOW", "", playlist)>>
       /\ \A c \in FDs, off \in Offsets :
            (control_state_tx = c /\ CtlCommit(c, TRUE, off)) =>
                /\ IsSuffix(control_state_play, playlist')
                /\ control_state_tx' = -1
      ]_vars

\* C2 witness: two paths wait in the scratch playlist of the owner while
\* another connection is shown a live playlist that has none of them.
C2_Witness ==
    \E c \in ctl_conns, d \in ctl_conns :
        /\ c # d
        /\ control_state_tx = c
        /\ Len(control_state_play) = MaxLen
        /\ playlist = <<>>
        /\ outq[d] = <<Frame("SHOW", "", <<>>)>>

\* C3: a connection that is closed while it owns the transaction (read EOF,
\* read error, write error or bad frame) rolls it back: the live playlist is
\* unchanged, the scratch playlist is dropped and the owner is none; a Begin
\* from another connection is then granted.
C3_CloseRollsBack ==
    [][/\ \A c \in FDs :
            (c \in ctl_conns /\ c \notin ctl_conns' /\ control_state_tx = c)
            => /\ playlist' = playlist
               /\ control_state_play' = <<>>
               /\ control_state_tx' = -1
       /\ \A c \in FDs :
            (HandleReadEOF(c) \/ HandleWriteError(c) \/ HandleBadFrame(c))
            => c \notin ctl_conns'
       /\ \A d \in FDs :
            (control_state_tx \notin ctl_conns /\ CtlBegin(d))
            => /\ control_state_tx' = d
               /\ Gained(d) = <<Reply("BEGIN")>>
      ]_vars

\* C3 witness: a connection holds the refusal of its Begin and nobody owns the
\* transaction any more.  No command was dispatched since the refusal (its
\* error frame is still buffered), so the owner was closed.
C3_Witness ==
    \E d \in ctl_conns :
        /\ outq[d] = <<ErrFrame("locked", "BEGIN")>>
        /\ control_state_tx = -1
        /\ control_state_play = <<>>
        /\ playlist # <<>>

FramesOf(q) == {q[i] : i \in 1..Len(q)}

\* C4: a Commit from a connection that is not the owner of the transaction,
\* also when no transaction is open, is answered with Error "locked" and
\* changes nothing else: the live playlist, the scratch playlist, the owner
\* and every other output buffer stay as they were (no Commit event).  Only
\* the owner ever gets the Commit reply.
C4_CommitOwnerOnly ==
    [][/\ \A c \in FDs, sizeok \in BOOLEAN, off \in Offsets :
            (c \in ctl_conns /\ control_state_tx # c /\ CtlCommit(c, sizeok, off))
            => /\ outq' = [outq EXCEPT ![c] = Append(@, ErrFrame("locked", "COMMIT"))]
               /\ UNCHANGED <<txVars, playVars>>
       /\ \A c \in FDs :
            Reply("COMMIT") \in FramesOf(Gained(c)) => control_state_tx = c
      ]_vars

\* C4 witness: a connection that does not own the open transaction has been
\* refused a Commit; the scratch playlist still holds the owner's path.
C4_Witness ==
    \E c \in ctl_conns, d \in ctl_conns :
        /\ c # d
        /\ control_state_tx = c
        /\ control_state_play # <<>>
        /\ outq[d] = <<ErrFrame("locked", "COMMIT")>>

\* C5: a Begin, Add or Commit that fails with "locked" or "wrong size" puts
\* one Error frame on the connection it came from and on no other, and leaves
\* the owner, the scratch playlist and the live playlist as they were.
C5_TxErrorPreserves ==
    [][\A c \in FDs :
        (\E f \in FramesOf(Gained(c)) :
            f.type = "ERR" /\ f.re \in {"BEGIN", "ADD", "COMMIT"})
        => /\ Len(SelectSeq(Gained(c), LAMBDA f : f.type = "ERR")) = 1
           /\ \A d \in FDs \ {c} :
                \A f \in FramesOf(Gained(d)) : f.type # "ERR"
           /\ UNCHANGED <<txVars, playlist>>
      ]_vars

\* C5 witness: the owner's Commit had a payload of the wrong size; the
\* transaction is still its own, with the path added to it.
C5_Witness ==
    \E c \in ctl_conns :
        /\ control_state_tx = c
        /\ control_state_play # <<>>
        /\ outq[c] = <<ErrFrame("wrong size", "COMMIT")>>

\* C6 as claimed: a malformed frame, a payload of the wrong size and a message
\* of unknown type each close the connection they came from.
C6_ProtocolErrorCloses ==
    [][\A c \in ctl_conns :
        (\/ HandleBadFrame(c)
         \/ CtlSeek(c, FALSE)
         \/ control_state_tx = c /\ \E off \in Offsets : CtlCommit(c, FALSE, off)
         \/ CtlMode(c, FALSE, ModeLeave)
         \/ CtlUnknown(c))
        => c \notin ctl_conns'
      ]_vars

\* C6 amended: a malformed frame closes the connection it came from and takes
\* it out of the connection table, and every other connection keeps its
\* record and its output; a payload of the wrong size or a message of unknown
\* type leaves the connection table as it is.
C6_BadFrameCloses ==
    [][/\ \A c \in ctl_conns :
            HandleBadFrame(c)
            => /\ ctl_conns' = ctl_conns \ {c}
               /\ \A d \in FDs \ {c} :
                    outq'[d] = outq[d] /\ monitor'[d] = monitor[d]
       /\ \A c \in ctl_conns :
            (\/ CtlSeek(c, FALSE)
             \/ control_state_tx = c /\ \E off \in Offsets : CtlCommit(c, FALSE, off)
             \/ CtlMode(c, FALSE, ModeLeave)
             \/ CtlUnknown(c))
            => /\ ctl_conns' = ctl_conns
               /\ c \in ctl_conns'
      ]_vars

\* C6 witness: a Seek with a payload of the wrong size was answered with an
\* error and its connection is still in the table, beside another one.
C6_Witness ==
    \E c \in ctl_conns :
        /\ outq[c] = <<ErrFrame("wrong size", "SEEK")>>
        /\ ctl_conns # {c}

\* what a dispatched command can change for observers
Observable == <<play_state, play_off, repeat_one, repeat_all, consume, playlist>>

Merge(old, req) ==
    CASE req = MODE_UNDEF -> old
      [] req = MODE_SET -> 1
      [] req = MODE_UNSET -> 0
      [] req = MODE_TOGGLE -> 1 - old

\* C11: a Mode command of the right size gives each of the three modes the
\* value of the merge rule for its own field of the request, whatever the
\* other two fields ask for; a request that is Leave in all three fields
\* leaves the three modes as they are.
C11_ModeMerge ==
    [][\A c \in ctl_conns, mode \in ModeMsgs :
          CtlMode(c, TRUE, mode)
          => /\ repeat_one' = Merge(repeat_one, mode.repeat_one)
             /\ repeat_all' = Merge(repeat_all, mode.repeat_all)
             /\ consume' = Merge(consume, mode.consume)
             /\ (mode = ModeLeave => UNCHANGED modeVars)
      ]_vars

\* C11 witness: two Mode commands were dispatched and left repeat_one and
\* consume set, repeat_all clear; a monitor holds their two events.
C11_Witness ==
    /\ repeat_one = 1 /\ repeat_all = 0 /\ consume = 1
    /\ \E c \in ctl_conns :
          monitor[c] /\ outq[c] = <<Event("MODE"), Event("MODE")>>

\* C12: an accept that fails for want of file descriptors detaches the
\* listening fd and arms the timer, and composes nothing on any connection;
\* no connection is accepted while the listening fd is detached; and a
\* detached listening fd is attached again, by the timer or by a close.
C12_AcceptPause ==
    /\ [][/\ control_accept_emfile
              => (~listening' /\ timer' /\ UNCHANGED <<connVars, txVars>>)
          /\ ~listening => ctl_conns' \subseteq ctl_conns
          /\ (~listening /\ listening')
              => (enable_accept \/ ctl_conns' # ctl_conns)
         ]_vars
    /\ (~listening ~> listening)

\* C12 witness: every fd is taken, accepting is paused with the timer armed,
\* and a client's pending output is the Begin-ack it was owed.
C12_Witness ==
    /\ ctl_conns = FDs
    /\ ~listening
    /\ timer
    /\ \E c \in ctl_conns : outq[c] = <<Reply("BEGIN")>>

ByPlay == \E c \in ctl_conns : CtlPlay(c) \/ CtlTogglePlay(c)
ByPause == \E c \in ctl_conns : CtlPause(c) \/ CtlTogglePlay(c)
ByStop == \E c \in ctl_conns : CtlStop(c)
ByNext == \E c \in ctl_conns : CtlNext(c)
ByMove == \E c \in ctl_conns : CtlPrev(c) \/ \E path \in Paths : CtlJump(c, path)
ByCut == \E c \in ctl_conns : CtlFlush(c) \/ \E off \in Offsets : CtlCommit(c, TRUE, off)
ByTrackEnd == main_dispatch_player
\* the playlist ran out with repeat_all false
EndOfPlaylist == (ByNext \/ ByTrackEnd) /\ repeat_all = 0 /\ play_off' = -1

\* nothing is left to play: consume removed the last entry
Exhausted == (ByNext \/ ByTrackEnd) /\ playlist' = <<>>

Goes(from, to) == play_state = from /\ play_state' = to

C16_StoppedOutcome ==
    player.why = "stop"
    => /\ player.ret # play_oggvorbis(TRUE, <<"eof">>)
       /\ player.ret # play_oggvorbis(FALSE, <<>>)

\* C17: with two entries, no mode set and playback started at the first
\* entry, a Next leaves the cursor at 1 and the state Playing until the second
\* track itself ends: the outcome event of the first track, which the Next
\* interrupted, moves neither the cursor nor the play state when main gets to
\* it.
C17_NextAdvancesOnce ==
    [][(/\ eventq # <<>>
        /\ Len(playlist) = 2
        /\ play_off = 1
        /\ play_state = STATE_PLAYING
        /\ Head(eventq).why = "stop"
        /\ Head(eventq).song = playlist[1]
        /\ main_dispatch_player)
       => UNCHANGED <<play_off, play_state>>
      ]_vars

\* C18: a Pause dispatched when the state is not Playing, and a Stop
\* dispatched when the state is Stopped, change nothing: not the play state,
\* the cursor or the playlist, no message goes to the worker and no frame to
\* any connection.
C18_GuardedNoOp ==
    [][\A c \in ctl_conns :
          /\ (play_state # STATE_PLAYING /\ CtlPause(c)) => UNCHANGED vars
          /\ (play_state = STATE_STOPPED /\ CtlStop(c)) => UNCHANGED vars
      ]_vars

\* C18 witness: playback is paused on the second entry, a monitor is
\* connected and nothing is in flight: a Pause dispatched now meets the
\* failing guard.
C18_Witness ==
    /\ play_state = STATE_PAUSED
    /\ play_off = 1
    /\ Quiet
    /\ \E c \in ctl_conns : monitor[c]

\* C19: the owner of the transaction, if there is one, is a connection of the
\* table; with no owner the scratch playlist is empty.
C19_OwnerConnected ==
    /\ control_state_tx # -1 => control_state_tx \in ctl_conns
    /\ control_state_tx = -1 => control_state_play = <<>>

\* C19 witness: a connection was refused a Begin because another one owned
\* the transaction; the owner has closed since, before the refusal was
\* written out, and its fd belongs to a new connection.  There is no owner.
C19_Witness ==
    /\ ctl_conns = FDs
    /\ control_state_tx = -1
    /\ \E d \in FDs :
          /\ outq[d] = <<ErrFrame("locked", "BEGIN")>>
          /\ \A c \in FDs \ {d} : outq[c] = <<>>

\* C20: either the listening fd is registered or the accept-pause timer is
\* pending, never both and never neither.  A close while the timer is pending
\* cancels it and registers the listening fd; the listening fd is registered
\* only when it was not.
C20_ListenXorTimer ==
    /\ [](listening # timer)
    /\ [][/\ (timer /\ Cardinality(ctl_conns') < Cardinality(ctl_conns))
              => (~timer' /\ listening')
          /\ (timer /\ ~timer') => (~listening /\ listening')
         ]_vars

\* C20 witness: accepting is paused, the timer is pending, and the owner of a
\* transaction is among the connections that can close.
C20_Witness ==
    /\ ~listening
    /\ timer
    /\ control_state_tx \in ctl_conns
    /\ control_state_play # <<>>

====
